---- MODULE Spec2Model ----
(***************************************************************************)
(* Model of demo_async_tkinter_dxlink_streamer_historic_candles.py:        *)
(* Window.display gathers two asyncio tasks, animation_async (the          *)
(* heartbeat) and get_candle_async (the poller).  One action is one        *)
(* synchronous stretch of a coroutine between two awaits.                  *)
(*                                                                         *)
(* Modelling conventions:                                                  *)
(*  - a DataFrame is a sequence of rows, a row is a record;                *)
(*  - a Candle carries time, eventFlags, close, volume and vwap; open,     *)
(*    high and low are coerced and stored exactly like close and are       *)
(*    represented by it;                                                   *)
(*  - a naive datetime is its number of microseconds;                      *)
(*  - asyncio.wait_for raises the builtin TimeoutError (Python >= 3.11).   *)
(***************************************************************************)
EXTENDS Integers, Sequences, FiniteSets, TLC

VARIABLES
    run,           \* self.run
    animation,     \* self.animation
    label,         \* self.label["text"]
    df,            \* local df of get_candle_async (the series store)
    update_graph,  \* local update_graph of get_candle_async (the gate)
    disp_df,       \* self.disp_df (the series handed to the renderer)
    label_quote,   \* self.label_quote["text"]
    label_vwap,    \* self.label_vwap["text"]
    pcD,           \* position of Window.display
    pcA,           \* position of animation_async
    pcP,           \* position of get_candle_async
    thread,        \* which coroutine holds the event-loop thread
    closeCount,    \* number of explicit streamer.close() calls (line 289)
    hist           \* history: one entry per candle the poller processed

vars == <<run, animation, label, df, update_graph, disp_df, label_quote,
          label_vwap, pcD, pcA, pcP, thread, closeCount, hist>>

\* Number of candles whose processing is recorded (and, in Spec, delivered).
MaxEvents == 3

----------------------------------------------------------------------------
\* Flag constants, lines 30-35.
TX_PENDING == 1
REMOVE_EVENT == 2
SNAPSHOT_BEGIN == 4
SNAPSHOT_END == 8
SNAPSHOT_SNIP == 16
SNAPSHOT_MODE == 64

\* A field of an upstream Candle is None or a number: None is the empty
\* tuple and the number x is the tuple <<x>>.
None == << >>
Num(x) == <<x>>

\* Python's integer & on non-negative integers.
RECURSIVE BitAnd(_, _)
BitAnd(x, y) ==
    IF x = 0 \/ y = 0 THEN 0
    ELSE (x % 2) * (y % 2) + 2 * BitAnd(x \div 2, y \div 2)


----------------------------------------------------------------------------
\* Pure helpers of the module.

\* float(x), lines 101-106: raises on None, else the number's value.
Coercible(x) == x /= None
Float(x) == x[1]

\* datetime.fromtimestamp(candle.time / 1000), line 98: milliseconds to a
\* naive datetime, counted here in microseconds (fixed UTC offset).
fromtimestamp(ms) == ms[1] * 1000

\* candle_to_dataframe, lines 90-118: a one-row frame, or the empty frame
\* when building the row raises.
candle_to_dataframe(candle) ==
    IF /\ Coercible(candle.time)
       /\ Coercible(candle.close)
       /\ Coercible(candle.volume)
       /\ Coercible(candle.vwap)
    THEN << [ eventFlags |-> candle.eventFlags,
              time       |-> fromtimestamp(candle.time),
              close      |-> Float(candle.close),
              volume     |-> Float(candle.volume),
              vwap       |-> Float(candle.vwap) ] >>
    ELSE << >>

\* pd.concat([df, df_new], axis=0, ignore_index=True), line 245.
concat(d, df_new) == d \o df_new

\* Faulty variant of drop_duplicates: keep='first', the earliest row of a time stays.
RECURSIVE drop_duplicates_keep_first(_)
drop_duplicates_keep_first(d) ==
    IF d = << >> THEN << >>
    ELSE LET f == SubSeq(d, 1, Len(d) - 1)
             l == d[Len(d)]
         IN  IF \E j \in 1..Len(f) : f[j].time = l.time
             THEN drop_duplicates_keep_first(f)
             ELSE drop_duplicates_keep_first(f) \o <<l>>

\* df.drop_duplicates(subset=['time'], keep='last'), line 246: a row stays
\* iff no later row has its time.
RECURSIVE drop_duplicates(_)
drop_duplicates(d) ==
    IF d = << >> THEN << >>
    ELSE LET h == Head(d)
             t == Tail(d)
         IN  IF \E j \in 1..Len(t) : t[j].time = h.time
             THEN drop_duplicates(t)
             ELSE <<h>> \o drop_duplicates(t)

\* Insert row r into the ascending frame d, before the first row whose time
\* is not smaller.
RECURSIVE InsertByTime(_, _)
InsertByTime(d, r) ==
    IF d = << >> THEN <<r>>
    ELSE IF Head(d).time < r.time
         THEN <<Head(d)>> \o InsertByTime(Tail(d), r)
         ELSE <<r>> \o d

\* Faulty variant of sort_values: the sort is left out.
sort_values_omitted(d) == d

\* df.sort_values(by=['time']), line 247.
RECURSIVE sort_values(_)
sort_values(d) ==
    IF d = << >> THEN << >>
    ELSE InsertByTime(sort_values(Tail(d)), Head(d))

\* Faulty variant of Divide: a zero denominator gives 0 for nan or inf.
DivideOrZero(a, b) == IF b = 0 THEN [num |-> 0, den |-> 1]
                               ELSE [num |-> a, den |-> b]

\* numpy float division, line 125: never raises.  A quotient is kept as the
\* pair of its numerator and denominator; 0/0 is numpy's nan and x/0 its inf.
Divide(a, b) == [num |-> a, den |-> b]
IsNaN(v) == v.den = 0 /\ v.num = 0

\* (p * q).cumsum() and q.cumsum() at position i, line 125.
RECURSIVE CumSumPQ(_, _)
CumSumPQ(d, i) ==
    IF i = 0 THEN 0 ELSE CumSumPQ(d, i - 1) + d[i].vwap * d[i].volume

\* Faulty variant of CumSumQ: q for q.cumsum().
VolumeAt(d, i) == d[i].volume

RECURSIVE CumSumQ(_, _)
CumSumQ(d, i) ==
    IF i = 0 THEN 0 ELSE CumSumQ(d, i - 1) + d[i].volume

\* vwap(df), lines 121-125: adds the column periodic_vwap.
vwap(d) ==
    [ i \in 1..Len(d) |->
        [ eventFlags    |-> d[i].eventFlags,
          time          |-> d[i].time,
          close         |-> d[i].close,
          volume        |-> d[i].volume,
          vwap          |-> d[i].vwap,
          periodic_vwap |-> Divide(CumSumPQ(d, i), CumSumQ(d, i)) ] ]

----------------------------------------------------------------------------
\* The synchronous body of one poller iteration, lines 236-282.

\* Faulty variant of Gate: TX_PENDING also suppresses.
GateTxPending(flags, ug) ==
    LET afterBegin ==
            IF BitAnd(flags, SNAPSHOT_BEGIN) /= 0 \/ BitAnd(flags, TX_PENDING) /= 0
            THEN FALSE ELSE ug
    IN  IF BitAnd(flags, SNAPSHOT_END) /= 0 THEN TRUE ELSE afterBegin

\* Faulty variant of Gate: the two tests swapped, BEGIN applied after END.
GateBeginLast(flags, ug) ==
    LET afterEnd == IF BitAnd(flags, SNAPSHOT_END) /= 0 THEN TRUE ELSE ug
    IN  IF BitAnd(flags, SNAPSHOT_BEGIN) /= 0 THEN FALSE ELSE afterEnd

\* Lines 236-240: the snapshot gate.
Gate(flags, ug) ==
    LET afterBegin == IF BitAnd(flags, SNAPSHOT_BEGIN) /= 0 THEN FALSE ELSE ug
    IN  IF BitAnd(flags, SNAPSHOT_END) /= 0 THEN TRUE ELSE afterBegin

\* Faulty variant of Merge: the REMOVE test of line 242 is left out.
MergeRemoveToo(candle, d) ==
    LET df_new == candle_to_dataframe(candle)
    IN  IF df_new /= << >>
        THEN sort_values(drop_duplicates(concat(d, df_new)))
        ELSE d

\* Lines 242-247: the merge of one candle into the store.
Merge(candle, d) ==
    IF BitAnd(candle.eventFlags, REMOVE_EVENT) = 0
    THEN LET df_new == candle_to_dataframe(candle)
         IN  IF df_new /= << >>
             THEN sort_values(drop_duplicates(concat(d, df_new)))
             ELSE d
    ELSE d

\* Faulty variant of ShouldPublish: | for &.
ShouldPublishOr(ug, d) == ug \/ d /= << >>

\* Line 249: update_graph & (not df.empty).
ShouldPublish(ug, d) == ug /\ d /= << >>

\* Lines 250-262: the frame handed to the renderer.
Published(d) == vwap(d)

\* Faulty variant of Iteration: the frame is copied (line 250) before the merge.
IterationPublishFirst(candle, ug0, d0) ==
    LET ug == Gate(candle.eventFlags, ug0)
        d  == Merge(candle, d0)
    IN  [ update_graph |-> ug,
          df           |-> d,
          publish      |-> ShouldPublish(ug, d0),
          disp_df      |-> Published(d0) ]

\* Lines 236-262 as a function of the candle, the gate ug0 and the store d0
\* before it: the gate and the store after it, whether the publish branch
\* runs, and the frame it hands over.
Iteration(candle, ug0, d0) ==
    LET ug == Gate(candle.eventFlags, ug0)
        d  == Merge(candle, d0)
    IN  [ update_graph |-> ug,
          df           |-> d,
          publish      |-> ShouldPublish(ug, d),
          disp_df      |-> Published(d) ]

\* Faulty variants of ExceptTimeout: a timeout reopens the gate; a timeout drops
\* the store.
ExceptTimeoutReopens(ug, d) == [update_graph |-> TRUE, df |-> d]
ExceptTimeoutClears(ug, d) == [update_graph |-> ug, df |-> << >>]

\* Lines 285-287, the TimeoutError handler: it assigns neither the gate nor
\* the store.
ExceptTimeout(ug, d) == [update_graph |-> ug, df |-> d]

\* f"{x:.2f}", lines 279-280: x in hundredths, rounded; nan and inf print
\* as words.
Format2f(v) ==
    IF v.den = 0 THEN (IF v.num = 0 THEN "nan" ELSE "inf")
    ELSE (200 * v.num + v.den) \div (2 * v.den)

\* One recorded iteration: the candle, the gate before and after it, the
\* store size after it, and whether the publish branch (lines 250-282) ran.
Entry(candle, before, after, d, pub) ==
    [ candle    |-> candle,
      before    |-> before,
      gate      |-> after,
      size      |-> Len(d),
      published |-> pub ]

\* The history keeps the first MaxEvents iterations.
Record(h, e) == IF Len(h) < MaxEvents THEN Append(h, e) ELSE h

----------------------------------------------------------------------------
\* The upstream feed: 5-minute candles at three times T0 < T1 < T2.

Candle(t, f, c, v, w) ==
    [ time |-> Num(t), eventFlags |-> f,
      close |-> Num(c), volume |-> Num(v), vwap |-> Num(w) ]

Undecodable(candle) == [candle EXCEPT !.close = None]

Candles ==
    { Candle(1, SNAPSHOT_BEGIN, 1, 1, 10),
      Candle(2, 0, 1, 2, 20),
      Candle(3, SNAPSHOT_END, 1, 3, 30),
      Candle(2, TX_PENDING + SNAPSHOT_SNIP + SNAPSHOT_MODE, 2, 2, 20),
      Candle(2, REMOVE_EVENT, 1, 2, 20),
      Candle(1, REMOVE_EVENT + SNAPSHOT_END, 1, 1, 10),
      Candle(1, SNAPSHOT_BEGIN + SNAPSHOT_END, 1, 0, 10),
      Undecodable(Candle(3, SNAPSHOT_END, 1, 3, 30)) }

----------------------------------------------------------------------------
\* State after Window.__init__ (lines 157-204), display() not yet entered.

\* self.animation, line 169: one light-shade block and five medium ones.
InitialAnimation == <<"L", "M", "M", "M", "M", "M">>

\* self.disp_df, lines 160-166: one sample row dated before every candle.
SampleFrame == << [time |-> 0, close |-> 1, volume |-> 1] >>

Init ==
    /\ run = TRUE
    /\ animation = InitialAnimation
    /\ label = << >>
    /\ df = << >>
    /\ update_graph = FALSE
    /\ disp_df = SampleFrame
    /\ label_quote = <<"----.--">>
    /\ label_vwap = <<"----.--">>
    /\ pcD = "top"
    /\ pcA = "none"
    /\ pcP = "none"
    /\ thread = "free"
    /\ closeCount = 0
    /\ hist = << >>

----------------------------------------------------------------------------
\* Window.display, lines 296-302.

\* Line 298: the loop test; line 299 creates the two tasks.
DisplayLoopTop ==
    /\ pcD = "top"
    /\ thread = "free"
    /\ IF run
       THEN /\ pcD' = "gather"
            /\ pcA' = "start"
            /\ pcP' = "enter"
       ELSE /\ pcD' = "done"
            /\ UNCHANGED <<pcA, pcP>>
    /\ UNCHANGED <<run, animation, label, df, update_graph, disp_df,
                   label_quote, label_vwap, thread, closeCount, hist>>

\* Lines 299-302: gather returns once both tasks have returned.
GatherDone ==
    /\ pcD = "gather"
    /\ thread = "free"
    /\ pcA = "done"
    /\ pcP = "done"
    /\ pcD' = "top"
    /\ UNCHANGED <<run, animation, label, df, update_graph, disp_df,
                   label_quote, label_vwap, pcA, pcP, thread, closeCount,
                   hist>>

\* Faulty variant of Update: Quit toggles the stop flag.
UpdateToggles(quit) == IF quit THEN ~run ELSE run

\* self.update() runs the pending Tk callbacks; the Quit button's command
\* is Window.quit (lines 201, 292-293).  quit says whether it was clicked.
Update(quit) == IF quit THEN FALSE ELSE run

----------------------------------------------------------------------------
\* Window.animation_async, lines 207-213: one pass from the loop test to
\* the sleep, or out of the loop.
Rotate(a) == Tail(a) \o <<Head(a)>>

\* Faulty variant of Heartbeat: the token is written to the quote label.
HeartbeatWrongLabel(quit) ==
    /\ pcA \in {"start", "sleep"}
    /\ thread = "free"
    /\ IF run
       THEN /\ label_quote' = animation
            /\ animation' = Rotate(animation)
            /\ run' = Update(quit)
            /\ pcA' = "sleep"
       ELSE /\ quit = FALSE
            /\ pcA' = "done"
            /\ UNCHANGED <<label_quote, animation, run>>
    /\ UNCHANGED <<df, update_graph, disp_df, label, label_vwap, pcD,
                   pcP, thread, closeCount, hist>>

Heartbeat(quit) ==
    /\ pcA \in {"start", "sleep"}
    /\ thread = "free"
    /\ IF run
       THEN /\ label' = animation
            /\ animation' = Rotate(animation)
            /\ run' = Update(quit)
            /\ pcA' = "sleep"
       ELSE /\ quit = FALSE
            /\ pcA' = "done"
            /\ UNCHANGED <<label, animation, run>>
    /\ UNCHANGED <<df, update_graph, disp_df, label_quote, label_vwap, pcD,
                   pcP, thread, closeCount, hist>>

----------------------------------------------------------------------------
\* Window.get_candle_async, lines 216-289.

\* Faulty variant of LoopTest: while True, the stop flag is not looked at.
LoopTestForever ==
    /\ pcP' = "poll"
    /\ thread' = "P"
    /\ UNCHANGED closeCount

\* Line 230, the loop test: into wait_for (line 232), or out of the loop to
\* the explicit close (line 289).
LoopTest ==
    IF run
    THEN /\ pcP' = "poll"
         /\ thread' = "P"
         /\ UNCHANGED closeCount
    ELSE /\ pcP' = "closing"
         /\ thread' = "free"
         /\ closeCount' = closeCount + 1

\* Lines 218-230: the streamer is entered and subscribed, the store and the
\* gate are created, and the loop is tested for the first time.
PollerSubscribed ==
    /\ pcP = "enter"
    /\ thread = "free"
    /\ df' = << >>
    /\ update_graph' = FALSE
    /\ LoopTest
    /\ UNCHANGED <<run, animation, label, disp_df, label_quote, label_vwap,
                   pcD, pcA, hist>>

\* Back from asyncio.sleep(0) (line 284 or 287) to the loop test.
PollerLoopTop ==
    /\ pcP \in {"sleep284", "sleep287"}
    /\ thread = "free"
    /\ LoopTest
    /\ UNCHANGED <<run, animation, label, df, update_graph, disp_df,
                   label_quote, label_vwap, pcD, pcA, hist>>

\* Faulty variant of Yield: no sleep(0), the poller goes on to its next wait_for
\* without giving the thread back.
NoYield(pc) == [pcP |-> "poll", thread |-> "P"]

\* await asyncio.sleep(0), lines 284 and 287: the poller suspends at pc and
\* gives the thread back to the event loop.
Yield(pc) == [pcP |-> pc, thread |-> "free"]

\* Lines 236-284 on candle: gate, merge, the publish branch, the yield.
\* quit: the Quit button is clicked during line 282's self.update().
Process(candle, quit) ==
    LET it  == Iteration(candle, update_graph, df)
        ug  == it.update_graph
        d   == it.df
        pub == it.publish
        y   == Yield("sleep284")
    IN  /\ quit => pub
        /\ update_graph' = ug
        /\ df' = d
        /\ IF pub
           THEN LET shown == it.disp_df
                    last  == shown[Len(shown)]
                IN  /\ disp_df' = shown
                    /\ label_quote' =
                          <<"SPY", Format2f(Divide(last.close, 1))>>
                    /\ label_vwap' = <<"vwap", Format2f(last.periodic_vwap)>>
                    /\ run' = Update(quit)
           ELSE UNCHANGED <<disp_df, label_quote, label_vwap, run>>
        /\ pcP' = y.pcP
        /\ thread' = y.thread
        /\ hist' = Record(hist, Entry(candle, update_graph, ug, d, pub))
        /\ UNCHANGED <<animation, label, pcD, pcA, closeCount>>

\* Line 232: the candle is already queued, wait_for returns without
\* suspending.
ImmediateEvent(candle, quit) ==
    /\ pcP = "poll"
    /\ Process(candle, quit)

\* Line 232: nothing is queued, the poller suspends in wait_for.
Suspend ==
    /\ pcP = "poll"
    /\ pcP' = "wait"
    /\ thread' = "free"
    /\ UNCHANGED <<run, animation, label, df, update_graph, disp_df,
                   label_quote, label_vwap, pcD, pcA, closeCount, hist>>

\* Line 232: a candle arrives within the 2 seconds and the poller resumes.
ReceiveEvent(candle, quit) ==
    /\ pcP = "wait"
    /\ thread = "free"
    /\ Process(candle, quit)

\* Lines 285-287: the 2 seconds pass, TimeoutError, the yield.
Timeout ==
    /\ pcP = "wait"
    /\ thread = "free"
    /\ update_graph' = ExceptTimeout(update_graph, df).update_graph
    /\ df' = ExceptTimeout(update_graph, df).df
    /\ pcP' = Yield("sleep287").pcP
    /\ thread' = Yield("sleep287").thread
    /\ UNCHANGED <<run, animation, label, disp_df, label_quote, label_vwap,
                   pcD, pcA, closeCount, hist>>

\* Line 289 returns and the async with block (line 218) is left: leaving
\* the streamer's context closes the streamer once more.
PollerReturn ==
    /\ pcP = "closing"
    /\ thread = "free"
    /\ pcP' = "done"
    /\ closeCount' = closeCount + 1
    /\ UNCHANGED <<run, animation, label, df, update_graph, disp_df,
                   label_quote, label_vwap, pcD, pcA, thread, hist>>

----------------------------------------------------------------------------
\* The feed delivers at most MaxEvents candles.
PollImmediate ==
    \E candle \in Candles, quit \in BOOLEAN :
        Len(hist) < MaxEvents /\ ImmediateEvent(candle, quit)

PollAfterWait ==
    \E candle \in Candles, quit \in BOOLEAN :
        Len(hist) < MaxEvents /\ ReceiveEvent(candle, quit)

Next ==
    \/ DisplayLoopTop
    \/ GatherDone
    \/ \E quit \in BOOLEAN : Heartbeat(quit)
    \/ PollerSubscribed
    \/ PollerLoopTop
    \/ Suspend
    \/ Timeout
    \/ PollerReturn
    \/ PollImmediate
    \/ PollAfterWait

Spec == Init /\ [][Next]_vars

\* The executions of the fairness claim: Quit is never clicked and every
\* wait_for finds a candle queued.  Whenever the running task suspends, the
\* event loop runs a task whose timer is due, and the heartbeat's timer is
\* due 0.1 s after it slept: a heartbeat that can run again and again does
\* run (strong fairness).
FairCandles ==
    { Candle(1, SNAPSHOT_BEGIN, 1, 1, 10),
      Candle(2, 0, 1, 2, 20),
      Candle(3, SNAPSHOT_END, 1, 3, 30) }

PollSucceeds == \E candle \in FairCandles : ImmediateEvent(candle, FALSE)

FairNext ==
    \/ DisplayLoopTop
    \/ Heartbeat(FALSE)
    \/ PollerSubscribed
    \/ PollerLoopTop
    \/ PollSucceeds

FairSpec ==
    /\ Init
    /\ [][FairNext]_vars
    /\ SF_vars(Heartbeat(FALSE))

----------------------------------------------------------------------------
\* Lines 232-284 statement group by statement group: the poller receives
\* the candle and sets the gate (232-240), merges (242-247), publishes and
\* yields (249-284).  The last entry of hist holds the candle in hand.

\* Faulty variant of Hold: the poller awaits between two statement groups.
HoldAwaits(pc) == [pcP |-> pc, thread |-> "free"]

\* Lines 240-242 and 247-249: no await between the statement groups, the
\* poller goes on at pc and keeps the thread.
Hold(pc) == [pcP |-> pc, thread |-> "P"]

\* Line 232 returns candle, at once or after a wait; lines 236-240.
GateStep(candle) ==
    /\ \/ pcP = "poll"
       \/ pcP = "wait" /\ thread = "free"
    /\ update_graph' = Gate(candle.eventFlags, update_graph)
    /\ hist' = Record(hist, Entry(candle, update_graph, update_graph', df,
                                  FALSE))
    /\ pcP' = Hold("gated").pcP
    /\ thread' = Hold("gated").thread
    /\ UNCHANGED <<run, animation, label, df, disp_df, label_quote,
                   label_vwap, pcD, pcA, closeCount>>

\* Lines 242-247.
MergeStep ==
    /\ pcP = "gated"
    /\ df' = Merge(hist[Len(hist)].candle, df)
    /\ hist' = [hist EXCEPT ![Len(hist)].size = Len(df')]
    /\ pcP' = Hold("merged").pcP
    /\ thread' = Hold("merged").thread
    /\ UNCHANGED <<run, animation, label, update_graph, disp_df, label_quote,
                   label_vwap, pcD, pcA, closeCount>>

\* Lines 249-284.  quit: the Quit button is clicked during line 282's
\* self.update().
PublishStep(quit) ==
    LET pub == ShouldPublish(update_graph, df)
        y   == Yield("sleep284")
    IN  /\ pcP = "merged"
        /\ quit => pub
        /\ IF pub
           THEN LET shown == Published(df)
                    last  == shown[Len(shown)]
                IN  /\ disp_df' = shown
                    /\ label_quote' =
                          <<"SPY", Format2f(Divide(last.close, 1))>>
                    /\ label_vwap' = <<"vwap", Format2f(last.periodic_vwap)>>
                    /\ run' = Update(quit)
           ELSE UNCHANGED <<disp_df, label_quote, label_vwap, run>>
        /\ hist' = [hist EXCEPT ![Len(hist)].published = pub]
        /\ pcP' = y.pcP
        /\ thread' = y.thread
        /\ UNCHANGED <<animation, label, df, update_graph, pcD, pcA,
                       closeCount>>

StepCandles ==
    { Candle(1, SNAPSHOT_BEGIN, 1, 1, 10),
      Candle(2, 0, 1, 2, 20),
      Candle(3, SNAPSHOT_END, 1, 3, 30),
      Candle(1, REMOVE_EVENT + SNAPSHOT_END, 1, 1, 10) }

StepReceive ==
    \E candle \in StepCandles : Len(hist) < MaxEvents /\ GateStep(candle)

StepNext ==
    \/ DisplayLoopTop
    \/ GatherDone
    \/ \E quit \in BOOLEAN : Heartbeat(quit)
    \/ PollerSubscribed
    \/ PollerLoopTop
    \/ Suspend
    \/ Timeout
    \/ PollerReturn
    \/ StepReceive
    \/ MergeStep
    \/ \E quit \in BOOLEAN : PublishStep(quit)

StepSpec == Init /\ [][StepNext]_vars

----------------------------------------------------------------------------
\* The executions of the cancellation claim.  The event loop resumes every
\* task whose await is over: a task created by gather starts, a sleep ends
\* after its delay, wait_for ends with a candle or with its timeout after
\* 2 seconds, streamer.close() returns, gather returns once both tasks
\* have.  Each of these steps is taken if it stays possible (weak
\* fairness); no candle ever has to arrive.
LivePoll ==
    \E candle \in StepCandles, quit \in BOOLEAN :
        /\ Len(hist) < MaxEvents
        /\ ImmediateEvent(candle, quit) \/ ReceiveEvent(candle, quit)

LiveNext ==
    \/ DisplayLoopTop
    \/ GatherDone
    \/ \E quit \in BOOLEAN : Heartbeat(quit)
    \/ PollerSubscribed
    \/ PollerLoopTop
    \/ Suspend
    \/ Timeout
    \/ PollerReturn
    \/ LivePoll

LiveSpec ==
    /\ Init
    /\ [][LiveNext]_vars
    /\ WF_vars(DisplayLoopTop)
    /\ WF_vars(GatherDone)
    /\ WF_vars(Heartbeat(FALSE))
    /\ WF_vars(PollerSubscribed)
    /\ WF_vars(PollerLoopTop)
    /\ WF_vars(Suspend)
    /\ WF_vars(Timeout)
    /\ WF_vars(PollerReturn)

----------------------------------------------------------------------------
\* Vocabulary of the properties.

Has(flags, bit) == BitAnd(flags, bit) /= 0
Decodes(candle) == candle_to_dataframe(candle) /= << >>
Row(candle) == candle_to_dataframe(candle)[1]
Key(candle) == fromtimestamp(candle.time)
HasKey(d, t) == \E i \in 1..Len(d) : d[i].time = t
Ascending(d) == \A i \in 1..(Len(d) - 1) : d[i].time < d[i + 1].time
Last(h) == h[Len(h)]
\* A published frame without its indicator column.
Series(d) ==
    [ i \in 1..Len(d) |->
        [ eventFlags |-> d[i].eventFlags, time |-> d[i].time,
          close |-> d[i].close, volume |-> d[i].volume, vwap |-> d[i].vwap ] ]
\* The candle is neither a tombstone nor undecodable: line 245 merges it.
Mergeable(candle) == ~Has(candle.eventFlags, REMOVE_EVENT) /\ Decodes(candle)
GateFlagged(candle) ==
    Has(candle.eventFlags, SNAPSHOT_BEGIN) \/ Has(candle.eventFlags, SNAPSHOT_END)

----------------------------------------------------------------------------
\* C1 (Tombstone): right after the poller has processed a candle with REMOVE
\* set and time T, the store has no row at T, whether or not T was there
\* before.  The code skips a REMOVE candle altogether (line 242), so a row
\* merged earlier at T stays: TLC refutes this statement.
C1_Tombstone ==
    (Len(hist) > 0 /\ Has(Last(hist).candle.eventFlags, REMOVE_EVENT)
        /\ Coercible(Last(hist).candle.time))
      => ~HasKey(df, Key(Last(hist).candle))

\* C2 (Publish safety): the publish branch runs only with the gate
\* Publishable and the store non-empty, so never before a candle with
\* SNAPSHOT_END was seen; a candle received while the gate is Suppressed is
\* still merged into the store; the renderer's frame changes only by a
\* publish.
C2_PublishSafety ==
    /\ \A i \in 1..Len(hist) :
          /\ hist[i].published => (hist[i].gate /\ hist[i].size > 0)
          /\ hist[i].published =>
                \E j \in 1..i : Has(hist[j].candle.eventFlags, SNAPSHOT_END)
          /\ (~hist[i].gate) => ~hist[i].published
    /\ (Len(hist) > 0 /\ ~Last(hist).gate /\ Mergeable(Last(hist).candle))
          => \E i \in 1..Len(df) : df[i] = Row(Last(hist).candle)
    /\ disp_df /= SampleFrame => \E i \in 1..Len(hist) : hist[i].published

\* A suppressed candle was merged without a publish, a later one published.
C2_Witness ==
    /\ Len(hist) = 3
    /\ ~hist[1].gate /\ hist[1].size = 1 /\ ~hist[1].published
    /\ hist[3].published
    /\ disp_df /= SampleFrame

\* C3 (Dedup, last write wins): the store has at most one row per time, and
\* its row at a time is, in every field, the last processed mergeable
\* candle with that time (no row if there was none), whatever was processed
\* for other times in between.
C3_LastWriteWins ==
    /\ \A i, j \in 1..Len(df) : df[i].time = df[j].time => i = j
    /\ \A t \in {Key(c) : c \in {x \in Candles : Coercible(x.time)}} :
          LET good == {i \in 1..Len(hist) :
                          Mergeable(hist[i].candle) /\ Key(hist[i].candle) = t}
          IN  IF good = {}
              THEN ~HasKey(df, t)
              ELSE LET latest == CHOOSE i \in good : \A j \in good : j <= i
                   IN  /\ \E i \in 1..Len(df) : df[i] = Row(hist[latest].candle)
                       /\ \A i \in 1..Len(df) :
                             df[i].time = t => df[i] = Row(hist[latest].candle)

\* Two candles with the same time and different close, another time between.
C3_Witness ==
    /\ Len(hist) = 3
    /\ Mergeable(hist[1].candle) /\ Mergeable(hist[2].candle)
    /\ Mergeable(hist[3].candle)
    /\ Key(hist[1].candle) = Key(hist[3].candle)
    /\ Key(hist[2].candle) /= Key(hist[1].candle)
    /\ hist[1].candle.close /= hist[3].candle.close
    /\ Len(df) = 2

\* C4 (Ordering): the store, and so every published frame, is strictly
\* ascending by time, in whatever order of times the candles arrived.
C4_Ordering == Ascending(df) /\ Ascending(disp_df)

\* Three candles that arrived in descending order of time, then published.
C4_Witness ==
    /\ Len(hist) = 3
    /\ Len(df) = 3
    /\ Key(hist[1].candle) > Key(hist[2].candle)
    /\ Key(hist[2].candle) > Key(hist[3].candle)
    /\ Last(hist).published
    /\ Len(disp_df) = 3

\* C5 (Close ordering): the explicit close of the subscription (line 289)
\* happens only after both tasks have left their loops.  The poller closes
\* as soon as its own loop ends, while the heartbeat may still be suspended
\* in asyncio.sleep(.1): TLC refutes this statement.
C5_CloseAfterBothTasks ==
    closeCount > 0 => (pcA = "done" /\ pcP \in {"closing", "done"})

\* The first three candles are mergeable, at T0 < T1 < T2, flagged
\* [BEGIN, none, END].
SnapshotOfThree ==
    /\ Len(hist) >= 3
    /\ \A i \in 1..3 : Mergeable(hist[i].candle)
    /\ Has(hist[1].candle.eventFlags, SNAPSHOT_BEGIN)
    /\ ~Has(hist[1].candle.eventFlags, SNAPSHOT_END)
    /\ ~GateFlagged(hist[2].candle)
    /\ Has(hist[3].candle.eventFlags, SNAPSHOT_END)
    /\ Key(hist[1].candle) < Key(hist[2].candle)
    /\ Key(hist[2].candle) < Key(hist[3].candle)

\* C6 (Gate correctness): for the flags [BEGIN, none, END] on mergeable
\* candles at T0 < T1 < T2 from the start, the first two candles publish
\* nothing and the third publishes after its merge, all three rows; and a
\* published frame is always the whole store as it is after the merge of
\* the candle that triggered the publish.
C6_GateCorrectness ==
    /\ SnapshotOfThree =>
          /\ ~hist[1].published /\ ~hist[2].published
          /\ hist[3].published /\ hist[3].size = 3
    /\ (SnapshotOfThree /\ Len(hist) = 3) =>
          Series(disp_df) =
              <<Row(hist[1].candle), Row(hist[2].candle), Row(hist[3].candle)>>
    /\ (Len(hist) > 0 /\ Last(hist).published) => Series(disp_df) = df

C6_Witness == SnapshotOfThree /\ Len(hist) = 3 /\ Len(disp_df) = 3

\* C7 (Gate persistence): after a candle with SNAPSHOT_BEGIN and without
\* SNAPSHOT_END, the gate is Suppressed and nothing is published for as long
\* as the candles that follow carry neither bit, however many they are and
\* however many timeouts pass.
C7_GatePersistence ==
    \A i \in 1..Len(hist) :
        ( Has(hist[i].candle.eventFlags, SNAPSHOT_BEGIN)
          /\ ~Has(hist[i].candle.eventFlags, SNAPSHOT_END) )
        => \A j \in i..Len(hist) :
              (\A k \in (i + 1)..j : ~GateFlagged(hist[k].candle))
              => /\ ~hist[j].gate
                 /\ ~hist[j].published
                 /\ (j = Len(hist) => ~update_graph)

\* BEGIN, two unflagged candles, then a timeout: still Suppressed.
C7_Witness ==
    /\ Len(hist) = 3
    /\ Has(hist[1].candle.eventFlags, SNAPSHOT_BEGIN)
    /\ ~GateFlagged(hist[2].candle) /\ ~GateFlagged(hist[3].candle)
    /\ pcP = "sleep287"
    /\ ~update_graph
    /\ Len(df) >= 2

\* The combinations of the three diagnostic bits.
DiagnosticMasks ==
    { a + b + c : a \in {0, TX_PENDING}, b \in {0, SNAPSHOT_SNIP},
                  c \in {0, SNAPSHOT_MODE} }
AllDiagnostic == TX_PENDING + SNAPSHOT_SNIP + SNAPSHOT_MODE
WithFlags(candle, f) == [candle EXCEPT !.eventFlags = f]
SameButFlags(d1, d2) ==
    /\ Len(d1) = Len(d2)
    /\ \A i \in 1..Len(d1) : [d1[i] EXCEPT !.eventFlags = 0]
                             = [d2[i] EXCEPT !.eventFlags = 0]

\* The gate function on every flag word without BEGIN and END.
GateIgnoresOtherFlags ==
    \A m \in DiagnosticMasks, r \in {0, REMOVE_EVENT}, ug \in BOOLEAN :
        Gate(m + r, ug) = ug

\* C8 (Only BEGIN and END drive the gate): a candle with neither bit leaves
\* the gate as it was, whatever it carries of TX_PENDING, REMOVE,
\* SNAPSHOT_SNIP and SNAPSHOT_MODE; and where the poller is about to take a
\* candle, setting or clearing TX_PENDING, SNAPSHOT_SNIP and SNAPSHOT_MODE
\* on it changes neither the gate, nor the rows of the store after it (but
\* for the flags column), nor whether it publishes.  (The last part is
\* evaluated before the heartbeat's first pass: the heartbeat touches
\* neither the store nor the gate, so these states carry every store and
\* gate the poller can hold at line 232.)
C8_OnlyBeginEndDrive ==
    /\ \A i \in 1..Len(hist) :
          ~GateFlagged(hist[i].candle) => hist[i].gate = hist[i].before
    /\ GateIgnoresOtherFlags
    /\ (pcP = "poll" /\ pcA = "start") =>
          \A c \in Candles :
              LET plain == c.eventFlags - BitAnd(c.eventFlags, AllDiagnostic)
                  ga == Gate(plain, update_graph)
                  da == Merge(WithFlags(c, plain), df)
              IN  \A m \in DiagnosticMasks :
                      LET gb == Gate(plain + m, update_graph)
                          db == Merge(WithFlags(c, plain + m), df)
                      IN  /\ ga = gb
                          /\ SameButFlags(da, db)
                          /\ ShouldPublish(ga, da) = ShouldPublish(gb, db)

\* A candle with all three diagnostic bits was merged and published with the
\* gate Publishable before and after it.
C8_Witness ==
    \E i \in 1..Len(hist) :
        /\ hist[i].candle.eventFlags = AllDiagnostic
        /\ hist[i].before /\ hist[i].gate /\ hist[i].published
        /\ i = Len(hist)
        /\ \E k \in 1..Len(df) : df[k] = Row(hist[i].candle)

\* C9 (Timeout resilience): an iteration that ends in a timeout changes
\* neither the store, nor the gate, nor the published frame and its labels,
\* and publishes nothing (so any number of them in a row leaves all of it as
\* it was); and the poller leaves the yield that follows only through the
\* loop test, to the close when the stop flag was cleared meanwhile.
C9_TimeoutResilience ==
    /\ [][(pcP = "wait" /\ pcP' = "sleep287")
            => UNCHANGED <<df, update_graph, disp_df, label_quote, label_vwap,
                           hist, run, closeCount>>]_vars
    /\ [][(pcP = "sleep287" /\ pcP' /= "sleep287")
            => pcP' = (IF run THEN "poll" ELSE "closing")]_vars

\* After a timeout, with a published store, the stop flag cleared.
C9_Witness ==
    /\ pcP = "sleep287"
    /\ ~run
    /\ df /= << >>
    /\ update_graph
    /\ Len(hist) = 3

\* C10 (No starvation): in an execution where the stop flag stays true and
\* the poller's polls succeed at once again and again, the heartbeat
\* advances its token again and again.
C10_HeartbeatAdvances ==
    []<><<PollSucceeds>>_vars => []<><<Heartbeat(FALSE)>>_vars

\* The token went once round while MaxEvents candles were processed.
C10_Witness ==
    /\ run
    /\ pcP = "sleep284"
    /\ Len(hist) = MaxEvents
    /\ animation = InitialAnimation
    /\ label /= << >>

\* C11 (Decode failure is discarded): a candle that does not decode leaves
\* the store as it was, moves the gate nowhere and publishes nothing.  The
\* code applies the gate (lines 236-240) before it decodes (line 243), so an
\* undecodable candle with SNAPSHOT_END opens the gate and publishes the
\* store: TLC refutes this statement.
C11_DecodeFailureDiscarded ==
    \A i \in 1..Len(hist) :
        ~Decodes(hist[i].candle) =>
            /\ hist[i].size = (IF i = 1 THEN 0 ELSE hist[i - 1].size)
            /\ hist[i].gate = hist[i].before
            /\ ~hist[i].published

\* C12 (Close exactly once): when the session has ended, the subscription
\* was closed exactly once, counting the explicit close (line 289) and the
\* close on leaving the streamer's context (line 218).  The code does both:
\* TLC refutes this statement.
C12_CloseExactlyOnce == pcD = "done" => closeCount = 1

\* C13 (Atomicity of the merge-publish unit): from the moment the poller
\* has received a candle until its end-of-iteration yield, the heartbeat
\* takes no step: it never runs where the gate is set for a candle that is
\* not merged yet, or where the candle is merged and the publish is still
\* to come; the poller holds the thread all along.
C13_MergePublishAtomic ==
    /\ [](pcP \in {"gated", "merged"} => thread = "P")
    /\ [][(\E quit \in BOOLEAN : Heartbeat(quit))
            => (pcP \notin {"gated", "merged"} /\ pcP' = pcP)]_vars

\* The heartbeat is suspended in its sleep while the poller stands between
\* the merge of an opening candle and its publish.
C13_Witness ==
    /\ pcP = "merged"
    /\ pcA = "sleep"
    /\ update_graph
    /\ Len(df) >= 2
    /\ Len(disp_df) < Len(df)

\* C14 (Cooperative cancellation): once the stop flag is false, the
\* heartbeat and the poller leave their loops, the gather of the two
\* returns and the display loop ends.
C14_CooperativeCancellation ==
    (~run) ~> (pcA = "done" /\ pcP = "done" /\ pcD = "done")

\* The session has ended after Quit, with candles processed before it.
C14_Witness ==
    /\ ~run
    /\ pcA = "done" /\ pcP = "done" /\ pcD = "done"
    /\ Len(hist) >= 2
    /\ label /= << >>

\* The sums of the indicator's definition over the first i rows of a frame,
\* each taken from scratch.
RECURSIVE SumVW(_)
SumVW(d) ==
    IF d = << >> THEN 0 ELSE Head(d).volume * Head(d).vwap + SumVW(Tail(d))

RECURSIVE SumV(_)
SumV(d) == IF d = << >> THEN 0 ELSE Head(d).volume + SumV(Tail(d))

Prefix(d, i) == SubSeq(d, 1, i)
HasPublished == disp_df /= SampleFrame

\* Volumes [1, 2, 3] with vwaps [10, 20, 30] in time order.
ExampleFrame ==
    << [eventFlags |-> 0, time |-> 1000, close |-> 1, volume |-> 1, vwap |-> 10],
       [eventFlags |-> 0, time |-> 2000, close |-> 1, volume |-> 2, vwap |-> 20],
       [eventFlags |-> 0, time |-> 3000, close |-> 1, volume |-> 3, vwap |-> 30] >>

ExampleIndicator == vwap(ExampleFrame)[3].periodic_vwap = Divide(140, 6)

\* C15 (Indicator correctness): in every published frame, the indicator at
\* position i is sum(volume_j * vwap_j) / sum(volume_j) over the rows up to
\* i of that frame, which at the publish is the current store, whatever was
\* published before; volumes [1, 2, 3] with vwaps [10, 20, 30] give 140/6
\* at the last position.
C15_IndicatorCorrect ==
    /\ ExampleIndicator
    /\ HasPublished =>
          \A i \in 1..Len(disp_df) :
              disp_df[i].periodic_vwap =
                  Divide(SumVW(Prefix(disp_df, i)), SumV(Prefix(disp_df, i)))
    /\ (Len(hist) > 0 /\ Last(hist).published) =>
          /\ Len(disp_df) = Len(df)
          /\ \A i \in 1..Len(df) :
                disp_df[i].periodic_vwap =
                    Divide(SumVW(Prefix(df, i)), SumV(Prefix(df, i)))

\* The second publish of a session: three rows with volumes 1, 2, 3 and
\* 140/6 at the last position.
C15_Witness ==
    /\ Len(hist) = 3
    /\ hist[2].published /\ hist[3].published
    /\ Len(disp_df) = 3
    /\ disp_df[3].periodic_vwap = Divide(140, 6)

\* C16 (Indicator undefined): in every published frame, a position whose
\* cumulative volume is zero carries nan (no value) and every other
\* position a quotient; the publish that computed it went through to the
\* labels, which show nan exactly when the last position is undefined, and
\* the poller went on to its yield.  (The feed's volumes are not negative.)
C16_IndicatorUndefined ==
    /\ HasPublished =>
          /\ \A i \in 1..Len(disp_df) :
                IF SumV(Prefix(disp_df, i)) = 0
                THEN IsNaN(disp_df[i].periodic_vwap)
                ELSE disp_df[i].periodic_vwap.den /= 0
          /\ label_vwap =
                <<"vwap", IF SumV(disp_df) = 0 THEN "nan"
                          ELSE Format2f(Divide(SumVW(disp_df), SumV(disp_df)))>>
    /\ (Len(hist) > 0 /\ Last(hist).published) =>
          /\ Len(disp_df) = Len(df)
          /\ pcP \in {"sleep284", "poll", "wait", "sleep287", "closing", "done"}

\* A frame was published whose first position has no value and whose second
\* has one.
C16_Witness ==
    /\ Len(hist) > 0 /\ Last(hist).published
    /\ Len(disp_df) >= 2
    /\ IsNaN(disp_df[1].periodic_vwap)
    /\ disp_df[2].periodic_vwap.den /= 0
    /\ pcP = "sleep284"

\* A step of the heartbeat task: one pass of animation_async.
HeartbeatStep == \E quit \in BOOLEAN : Heartbeat(quit)

\* C17 as stated (Heartbeat frame): every step of the heartbeat task leaves
\* the store, the gate, the published frame and its labels, and the stop
\* flag unchanged.  The Quit callback runs inside the step's self.update()
\* (line 212) and clears the flag: TLC refutes this statement.
C17_HeartbeatFrameWithFlag ==
    [][HeartbeatStep
        => UNCHANGED <<df, update_graph, disp_df, label_quote, label_vwap,
                       run>>]_vars

\* C17 as amended: every step of the heartbeat task changes only its token,
\* its label and, when the Quit callback runs inside its self.update(), the
\* stop flag, from true to false; it leaves the store, the gate, the
\* published frame and its labels unchanged, and no step of the poller
\* changes the token or the heartbeat's label.
C17_HeartbeatFrame ==
    /\ [][HeartbeatStep
            => /\ UNCHANGED <<df, update_graph, disp_df, label_quote,
                              label_vwap, hist, closeCount, pcP, pcD>>
               /\ run' /= run => (run /\ ~run' /\ Heartbeat(TRUE))]_vars
    /\ [][pcP' /= pcP => UNCHANGED <<animation, label>>]_vars

\* Quit was clicked during a heartbeat step while the poller, with a
\* published store, was waiting for a candle.
C17_Witness ==
    /\ ~run
    /\ pcP = "wait"
    /\ pcA = "sleep"
    /\ label /= << >>
    /\ df /= << >>
    /\ HasPublished

\* The step processes a candle with REMOVE set.
ProcessedRemove ==
    /\ hist' /= hist
    /\ Has(hist'[Len(hist')].candle.eventFlags, REMOVE_EVENT)

\* C18 (REMOVE is a no-op on the store): processing a candle with REMOVE
\* set leaves the store exactly as it was, so its payload is never
\* inserted; its BEGIN and END bits still drive the gate, and if the gate
\* is then Publishable and the store non-empty, the unchanged store is
\* published, otherwise nothing is.
C18_RemoveIsNoOp ==
    [][ProcessedRemove =>
          LET e == hist'[Len(hist')]
              f == e.candle.eventFlags
          IN  /\ df' = df
              /\ update_graph' =
                    (IF Has(f, SNAPSHOT_END) THEN TRUE
                     ELSE IF Has(f, SNAPSHOT_BEGIN) THEN FALSE
                     ELSE update_graph)
              /\ e.published = (update_graph' /\ df /= << >>)
              /\ IF e.published THEN Series(disp_df') = df
                                ELSE disp_df' = disp_df]_vars

\* A candle with REMOVE and SNAPSHOT_END, at a time the store does not
\* hold, opened the gate and published the store of one row as it was.
C18_Witness ==
    /\ Len(hist) = 2
    /\ Mergeable(hist[1].candle)
    /\ hist[2].candle.eventFlags = REMOVE_EVENT + SNAPSHOT_END
    /\ Key(hist[2].candle) /= Key(hist[1].candle)
    /\ ~hist[2].before /\ hist[2].gate /\ hist[2].published
    /\ df = <<Row(hist[1].candle)>>
    /\ Series(disp_df) = df

\* A candle with both bits leaves the gate Publishable, whatever it was.
BothBitsPublish ==
    \A ug \in BOOLEAN : Gate(SNAPSHOT_BEGIN + SNAPSHOT_END, ug) = TRUE

\* C19 (The gate is a function of the flag history): the gate is Suppressed
\* if no candle with SNAPSHOT_BEGIN or SNAPSHOT_END was received, and
\* otherwise Publishable exactly when the last such candle had SNAPSHOT_END
\* set; a candle with both bits leaves it Publishable.
C19_GateIsFlagHistory ==
    /\ BothBitsPublish
    /\ LET flagged == {i \in 1..Len(hist) : GateFlagged(hist[i].candle)}
       IN  update_graph =
              IF flagged = {} THEN FALSE
              ELSE LET latest == CHOOSE i \in flagged :
                                     \A j \in flagged : j <= i
                   IN  Has(hist[latest].candle.eventFlags, SNAPSHOT_END)

\* END, then BEGIN, then a candle with both bits: Publishable again.
C19_Witness ==
    /\ Len(hist) = 3
    /\ hist[1].gate
    /\ ~hist[2].gate
    /\ hist[3].candle.eventFlags = SNAPSHOT_BEGIN + SNAPSHOT_END
    /\ update_graph

\* C20 (After the stop): once the stop flag is false it stays false; the
\* heartbeat's token and label change no more; the poller processes a
\* further candle only out of the wait_for it was suspended in, and never
\* enters another wait_for, so at most one; the display loop creates the
\* two tasks only when none was ever created, and it ends with both tasks
\* created and returned.
C20_AfterStop ==
    /\ [][~run => ~run']_vars
    /\ [][~run => UNCHANGED <<animation, label>>]_vars
    /\ [][(~run /\ hist' /= hist)
            => (pcP = "wait" /\ pcP' = "sleep284")]_vars
    /\ [][(~run /\ pcP' /= pcP) => pcP' \notin {"poll", "wait"}]_vars
    /\ [][(pcD' = "gather" /\ pcD /= "gather")
            => (pcA = "none" /\ pcP = "none")]_vars
    /\ [](pcD = "done" => (pcA = "done" /\ pcP = "done"))

\* Quit came through the heartbeat's self.update() (nothing was published)
\* and the poller, candles processed, is at its last yield; the heartbeat
\* is still asleep with the token where the stop found it.
C20_Witness ==
    /\ ~run
    /\ pcP = "sleep284"
    /\ pcA = "sleep"
    /\ Len(hist) >= 2
    /\ \A i \in 1..Len(hist) : ~hist[i].published
    /\ label = InitialAnimation

====
